---- MODULE Spec2Model ----
(***************************************************************************)
(* PersistentFileLog (expo.modules.core.logging): a line-separated flat    *)
(* file per category, mutated only by blocks queued on one static serial   *)
(* dispatch queue (a buffered channel drained by one coroutine), and read  *)
(* synchronously by readEntries().                                         *)
(*                                                                         *)
(* A string is modelled as the sequence of its characters, so that         *)
(* split("\n") and joinToString("\n") are computed, not assumed.           *)
(***************************************************************************)
EXTENDS Integers, Sequences, FiniteSets, TLC

\* ------------------------------------------------------------------ bounds
\* Total number of appendEntry / filterEntries / clearEntries calls.
MaxOps == 4
\* Capacity of the channel's buffer (Channel.BUFFERED), scaled down.
ChannelCapacity == 2
\* Number of I/O failures the file system may inject in one run.
MaxFaults == 1

\* ------------------------------------------------------------ value spaces
NL == "\n"

Categories == {"errors", "other"}

Callers == {"c1", "c2"}

\* The strings "", "A", "B", "C".
EmptyEntry == << >>
EntryA == <<"A">>
EntryB == <<"B">>
EntryC == <<"C">>

\* Throwables the file operations can raise: an IOException (java.lang.Exception)
\* or a java.lang.Error (e.g. OutOfMemoryError).
Throwables == {"IOException", "Error"}

\* The predicates handed to filterEntries, by name.
Filters == {"all", "none", "notA", "isEmpty"}

\* filter(entry)
Accepts(filter, entry) ==
  CASE filter = "all" -> TRUE
    [] filter = "none" -> FALSE
    [] filter = "notA" -> entry # EntryA
    [] filter = "isEmpty" -> entry = EmptyEntry
    [] OTHER -> TRUE

\* A queued operation. id is its position in the order of completed enqueues
\* (0 while the call has not yet been enqueued).
MkOp(kind, cat, entry, filter) ==
  [id |-> 0, kind |-> kind, cat |-> cat, entry |-> entry, filter |-> filter]

NoOp == MkOp("none", "errors", EmptyEntry, "all")

AppendOp(cat, entry) == MkOp("append", cat, entry, "all")

FilterOp(cat, filter) == MkOp("filter", cat, EmptyEntry, filter)

ClearOp(cat) == MkOp("clear", cat, EmptyEntry, "all")

\* ------------------------------------------------------------------- state
VARIABLES
  files,        \* category -> [exists, text]: the file at filePath
  channel,      \* the channel's buffer: queued blocks, oldest first
  running,      \* the blocks the worker coroutine is executing (frames)
  workerAlive,  \* the coroutine `sc` has not completed exceptionally
  callPc,       \* caller -> "idle" | "sending" (inside queue.add)
  callOp,       \* caller -> the block it is sending
  nCalls,       \* number of calls made so far
  faultsUsed,   \* number of I/O failures injected so far
  submitted,    \* history: the operations in the order their send completed
  started,      \* history: ids in the order the worker received them
  cbLog,        \* history: completion handler invocations [id, err]
  ioFailed,     \* history: ids whose ensure/read/write raised
  escaped,      \* history: ids whose block let a throwable escape
  lastDone,     \* the operation whose handler fired last, none started since
  reader        \* the thread inside readEntries(): its position and locals

vars ==
  <<files, channel, running, workerAlive, callPc, callOp, nCalls, faultsUsed,
    submitted, started, cbLog, ioFailed, escaped, lastDone, reader>>

hist == <<submitted, started, cbLog, ioFailed, escaped, lastDone>>

NoDone ==
  [op |-> NoOp, was |-> [exists |-> FALSE, text |-> << >>], before |-> << >>,
   err |-> "null", clean |-> TRUE]

\* --------------------------------------------------------- pure functions
RECURSIVE SplitFrom(_, _)
\* text.split("\n"), given the characters of the current piece read so far.
SplitFrom(text, piece) ==
  IF text = << >> THEN <<piece>>
  ELSE IF Head(text) = NL THEN <<piece>> \o SplitFrom(Tail(text), << >>)
  ELSE SplitFrom(Tail(text), Append(piece, Head(text)))

\* stringToList
stringToList(text) ==
  IF Len(text) = 0 THEN << >> ELSE SplitFrom(text, << >>)

RECURSIVE JoinTerminated(_)
\* Mutant of joinToString: every entry is followed by a newline.
JoinTerminated(entries) ==
  IF entries = << >> THEN << >>
  ELSE entries[1] \o <<NL>> \o JoinTerminated(Tail(entries))

RECURSIVE joinToString(_)
\* entries.joinToString("\n")
joinToString(entries) ==
  IF entries = << >> THEN << >>
  ELSE IF Len(entries) = 1 THEN entries[1]
  ELSE entries[1] \o <<NL>> \o joinToString(Tail(entries))

\* contents.filter(filter)
FilterList(contents, filter) ==
  LET Keep(e) == Accepts(filter, e) IN SelectSeq(contents, Keep)

\* getFileSize, when the stream can be opened
getFileSize(file) ==
  IF ~file.exists THEN 0 ELSE Len(file.text)

\* readFileLinesSync
readFileLinesSync(file) == stringToList(file.text)

\* readEntries, run while no block is executing
readEntries(cat) ==
  IF getFileSize(files[cat]) = 0 THEN << >> ELSE readFileLinesSync(files[cat])

\* Mutant of AppendText: the separator is written whatever the size.
AppendTextSeparated(size, entry) == <<NL>> \o entry

\* The text appendEntry writes, given the size it measured.
AppendText(size, entry) ==
  IF size = 0 THEN entry ELSE <<NL>> \o entry

\* Which throwables the block of each operation catches: appendEntry and
\* clearEntries catch Error, filterEntries catches Throwable.
Catches(kind, exc) ==
  IF kind = "filter" THEN TRUE ELSE exc = "Error"

\* The value handed to the completion handler by the catch clause.
Delivered(kind, exc) ==
  IF kind = "filter" THEN "Error(" \o exc \o ")" ELSE exc

\* The first step of the block of each operation.
FirstPc(kind) ==
  IF kind = "clear" THEN "delete" ELSE "ensure"

\* ------------------------------------------------------------ initial state
Absent == [exists |-> FALSE, text |-> << >>]

EmptyFile == [exists |-> TRUE, text |-> << >>]

\* A frame: one block being executed. size and contents are the block's
\* locals, err the value its handler will receive, pending the block a
\* re-entrant handler is sending; was is the file and before what readEntries
\* returned when the block started, clean that no fault was swallowed
\* (history).
MkFrame(op, was, before) ==
  [op |-> op, pc |-> FirstPc(op.kind), size |-> 0, contents |-> << >>,
   err |-> "null", pending |-> NoOp, was |-> was, before |-> before,
   clean |-> TRUE]

\* The thread that calls readEntries() is outside the call.
ReaderIdle ==
  [pc |-> "idle", cat |-> "errors", size |-> 0, quiet |-> TRUE, at |-> 0,
   was |-> [exists |-> FALSE, text |-> << >>], raised |-> FALSE,
   list |-> << >>]

InitWith(fs) ==
  /\ files = fs
  /\ channel = << >>
  /\ running = {}
  /\ workerAlive = TRUE
  /\ callPc = [c \in Callers |-> "idle"]
  /\ callOp = [c \in Callers |-> NoOp]
  /\ nCalls = 0
  /\ faultsUsed = 0
  /\ submitted = << >>
  /\ started = << >>
  /\ cbLog = << >>
  /\ ioFailed = {}
  /\ escaped = {}
  /\ lastDone = NoDone
  /\ reader = ReaderIdle

\* The log of a category is absent, or left empty by an earlier run.
Init == \E fs \in [Categories -> {Absent, EmptyFile}] : InitWith(fs)

\* ------------------------------------------------------------------ queue
\* channel.send(block): the block joins the buffer's tail.
Enqueue(op) ==
  LET o == [op EXCEPT !.id = Len(submitted) + 1] IN
  /\ channel' = Append(channel, o)
  /\ submitted' = Append(submitted, o)

\* channel.send suspends while the buffer is full.
HasRoom == Len(channel) < ChannelCapacity

\* Mutant of ReceivedBlock: the newest block is taken first.
ReceivedNewest == channel[Len(channel)]

\* channel.receive(): the block the worker takes from the buffer.
ReceivedBlock == Head(channel)

\* Mutant of WorkerReady: each received block is launched on its own.
WorkerAlwaysReady == TRUE

\* Mutant of WorkerReady: one worker per category, so a block waits only for
\* the blocks of its own log.
WorkerReadyPerCategory ==
  channel # << >> => \A f \in running : f.op.cat # Head(channel).cat

\* `while (true) { channel.receive()() }`: the loop receives again only after
\* the block it called has returned.
WorkerReady == running = {}

\* appendEntry / filterEntries / clearEntries: the caller enters queue.add.
CallAdd(c, op) ==
  /\ callPc[c] = "idle"
  /\ nCalls < MaxOps
  /\ callPc' = [callPc EXCEPT ![c] = "sending"]
  /\ callOp' = [callOp EXCEPT ![c] = op]
  /\ nCalls' = nCalls + 1
  /\ UNCHANGED <<files, channel, running, workerAlive, faultsUsed, hist>>
  /\ UNCHANGED reader

\* runBlocking { channel.send(block) } completes and the call returns.
SendComplete(c) ==
  /\ callPc[c] = "sending"
  /\ HasRoom
  /\ Enqueue(callOp[c])
  /\ callPc' = [callPc EXCEPT ![c] = "idle"]
  /\ callOp' = [callOp EXCEPT ![c] = NoOp]
  /\ UNCHANGED <<files, running, workerAlive, nCalls, faultsUsed, started,
                 cbLog, ioFailed, escaped, lastDone>>
  /\ UNCHANGED reader

\* The worker receives the next block and calls it.
Receive ==
  /\ workerAlive
  /\ WorkerReady
  /\ channel # << >>
  /\ LET op == ReceivedBlock IN
     /\ channel' = Tail(channel)
     /\ running' = running \cup {MkFrame(op, files[op.cat], readEntries(op.cat))}
     /\ started' = Append(started, op.id)
  /\ lastDone' = NoDone
  /\ UNCHANGED <<files, workerAlive, callPc, callOp, nCalls, faultsUsed,
                 submitted, cbLog, ioFailed, escaped>>
  /\ UNCHANGED reader

\* ----------------------------------------------------------- block steps
Replace(f, g) == (running \ {f}) \cup {g}

\* A throwable raised inside the try of f's block: the catch clause hands it
\* to the handler, or it escapes the block and ends the worker coroutine.
Throw(f, exc) ==
  IF Catches(f.op.kind, exc)
  THEN /\ running' = Replace(f, [f EXCEPT !.pc = "invoke",
                                          !.err = Delivered(f.op.kind, exc),
                                          !.clean = FALSE])
       /\ UNCHANGED <<workerAlive, escaped>>
  ELSE /\ running' = running \ {f}
       /\ workerAlive' = FALSE
       /\ escaped' = escaped \cup {f.op.id}

\* ensureFileExists: creates the file when it does not exist.
EnsureFileExists(f) ==
  /\ f.pc = "ensure"
  /\ files' = [files EXCEPT ![f.op.cat] =
                 IF @.exists THEN @ ELSE EmptyFile]
  /\ running' = Replace(f, [f EXCEPT !.pc =
                 IF f.op.kind = "append" THEN "size" ELSE "read"])
  /\ UNCHANGED <<channel, workerAlive, callPc, callOp, nCalls, faultsUsed, hist>>
  /\ UNCHANGED reader

\* getFileSize inside appendEntry.
MeasureSize(f) ==
  /\ f.pc = "size"
  /\ running' = Replace(f, [f EXCEPT !.pc = "append",
                                     !.size = getFileSize(files[f.op.cat])])
  /\ UNCHANGED <<files, channel, workerAlive, callPc, callOp, nCalls,
                 faultsUsed, hist>>
  /\ UNCHANGED reader

\* getFileSize: the stream cannot be opened; the IOException is swallowed
\* and the size reads as 0.
MeasureSizeUnreadable(f) ==
  /\ f.pc = "size"
  /\ files[f.op.cat].exists
  /\ faultsUsed < MaxFaults
  /\ faultsUsed' = faultsUsed + 1
  /\ running' = Replace(f, [f EXCEPT !.pc = "append", !.size = 0,
                                     !.clean = FALSE])
  /\ UNCHANGED <<files, channel, workerAlive, callPc, callOp, nCalls, hist>>
  /\ UNCHANGED reader

\* appendTextToFile(text); appendText creates the file when it is missing.
appendTextToFile(f) ==
  /\ f.pc = "append"
  /\ files' = [files EXCEPT ![f.op.cat] =
                 [exists |-> TRUE,
                  text |-> @.text \o AppendText(f.size, f.op.entry)]]
  /\ running' = Replace(f, [f EXCEPT !.pc = "invoke"])
  /\ UNCHANGED <<channel, workerAlive, callPc, callOp, nCalls, faultsUsed, hist>>
  /\ UNCHANGED reader

\* readFileLinesSync inside filterEntries; readText of a missing file raises
\* FileNotFoundException (an IOException).
ReadLines(f) ==
  /\ f.pc = "read"
  /\ IF files[f.op.cat].exists
     THEN /\ running' = Replace(f, [f EXCEPT !.pc = "write",
                            !.contents = readFileLinesSync(files[f.op.cat])])
          /\ UNCHANGED <<workerAlive, escaped, ioFailed>>
     ELSE /\ Throw(f, "IOException")
          /\ ioFailed' = ioFailed \cup {f.op.id}
  /\ UNCHANGED <<files, channel, callPc, callOp, nCalls, faultsUsed,
                 submitted, started, cbLog, lastDone>>
  /\ UNCHANGED reader

\* writeFileLinesSync(contents.filter(filter))
writeFileLinesSync(f) ==
  /\ f.pc = "write"
  /\ files' = [files EXCEPT ![f.op.cat] =
                 [exists |-> TRUE,
                  text |-> joinToString(FilterList(f.contents, f.op.filter))]]
  /\ running' = Replace(f, [f EXCEPT !.pc = "invoke"])
  /\ UNCHANGED <<channel, workerAlive, callPc, callOp, nCalls, faultsUsed, hist>>
  /\ UNCHANGED reader

\* createNewFile returns false or raises, readText, appendText or writeText
\* raises: the I/O step of the block fails before it changes the file.
IoStepFails(f, exc) ==
  /\ f.pc \in {"ensure", "read", "append", "write"}
  /\ f.pc = "ensure" => ~files[f.op.cat].exists
  /\ f.pc = "read" => files[f.op.cat].exists
  /\ faultsUsed < MaxFaults
  /\ faultsUsed' = faultsUsed + 1
  /\ Throw(f, exc)
  /\ ioFailed' = IF exc = "IOException" THEN ioFailed \cup {f.op.id} ELSE ioFailed
  /\ UNCHANGED <<files, channel, callPc, callOp, nCalls, submitted, started,
                 cbLog, lastDone>>
  /\ UNCHANGED reader

\* Mutant of deleteFileSync: the file is truncated, not removed.
deleteFileSyncTruncates(f) ==
  /\ f.pc = "delete"
  /\ files' = [files EXCEPT ![f.op.cat] = EmptyFile]
  /\ running' = Replace(f, [f EXCEPT !.pc = "invoke"])
  /\ UNCHANGED <<channel, workerAlive, callPc, callOp, nCalls, faultsUsed, hist>>
  /\ UNCHANGED reader

\* deleteFileSync: deletes the file when it exists.
deleteFileSync(f) ==
  /\ f.pc = "delete"
  /\ files' = [files EXCEPT ![f.op.cat] = Absent]
  /\ running' = Replace(f, [f EXCEPT !.pc = "invoke"])
  /\ UNCHANGED <<channel, workerAlive, callPc, callOp, nCalls, faultsUsed, hist>>
  /\ UNCHANGED reader

\* deleteFileSync: fd.delete() returns false; the result is ignored.
DeleteRefused(f) ==
  /\ f.pc = "delete"
  /\ files[f.op.cat].exists
  /\ faultsUsed < MaxFaults
  /\ faultsUsed' = faultsUsed + 1
  /\ running' = Replace(f, [f EXCEPT !.pc = "invoke", !.clean = FALSE])
  /\ UNCHANGED <<files, channel, workerAlive, callPc, callOp, nCalls, hist>>
  /\ UNCHANGED reader

\* What the handler invocation leaves in the histories.
Completed(f) ==
  /\ cbLog' = Append(cbLog, [id |-> f.op.id, err |-> f.err])
  /\ lastDone' = [op |-> f.op, was |-> f.was, before |-> f.before,
                  err |-> f.err, clean |-> f.clean]

\* completionHandler.invoke(err); the handler returns and so does the block.
InvokeHandler(f) ==
  /\ f.pc = "invoke"
  /\ Completed(f)
  /\ running' = running \ {f}
  /\ UNCHANGED <<files, channel, workerAlive, callPc, callOp, nCalls,
                 faultsUsed, submitted, started, ioFailed, escaped>>
  /\ UNCHANGED reader

\* completionHandler.invoke(err); the handler itself calls appendEntry,
\* filterEntries or clearEntries, on the worker's thread.
InvokeHandlerCallingAdd(f, op) ==
  /\ f.pc = "invoke"
  /\ nCalls < MaxOps
  /\ nCalls' = nCalls + 1
  /\ Completed(f)
  /\ running' = Replace(f, [f EXCEPT !.pc = "cbsend", !.pending = op])
  /\ UNCHANGED <<files, channel, workerAlive, callPc, callOp, faultsUsed,
                 submitted, started, ioFailed, escaped>>
  /\ UNCHANGED reader

\* The handler's runBlocking { channel.send(block) } completes; the handler
\* and the block return.
HandlerSendComplete(f) ==
  /\ f.pc = "cbsend"
  /\ HasRoom
  /\ Enqueue(f.pending)
  /\ running' = running \ {f}
  /\ UNCHANGED <<files, workerAlive, callPc, callOp, nCalls, faultsUsed,
                 started, cbLog, ioFailed, escaped, lastDone>>
  /\ UNCHANGED reader

\* completionHandler.invoke(err): the handler is entered and throws exc.
\* Thrown from the invocation inside the try (err is null), exc meets the
\* block's own catch clause, which invokes the handler again or lets exc
\* escape; thrown from the invocation inside the catch, exc escapes the block
\* and ends the worker coroutine.
InvokeHandlerThrows(f, exc) ==
  /\ f.pc = "invoke"
  /\ faultsUsed < MaxFaults
  /\ faultsUsed' = faultsUsed + 1
  /\ Completed(f)
  /\ IF f.err = "null"
     THEN Throw(f, exc)
     ELSE /\ running' = running \ {f}
          /\ workerAlive' = FALSE
          /\ escaped' = escaped \cup {f.op.id}
  /\ UNCHANGED <<files, channel, callPc, callOp, nCalls, submitted, started,
                 ioFailed, reader>>

\* ------------------------------------------------------------- readEntries
\* Mutant of ReadOutcome: the file is read whatever the size.
ReadOutcomeUnchecked(size, file) ==
  IF file.exists
  THEN [raised |-> FALSE, list |-> stringToList(file.text)]
  ELSE [raised |-> TRUE, list |-> << >>]

\* What readEntries returns or raises, given the size it measured and the
\* file it finds when it comes to read: readText of a missing file raises
\* FileNotFoundException.
ReadOutcome(size, file) ==
  IF size = 0 THEN [raised |-> FALSE, list |-> << >>]
  ELSE IF file.exists
       THEN [raised |-> FALSE, list |-> readFileLinesSync(file)]
       ELSE [raised |-> TRUE, list |-> << >>]

\* No block has been executing since the reader's call began.
StillQuiet == running = {} /\ Len(started) = reader.at

\* A thread calls readEntries(): `0L == getFileSize()` is evaluated on the
\* caller's thread, outside the queue.
ReadStart(cat) ==
  /\ reader.pc # "sized"
  /\ reader' = [pc |-> "sized", cat |-> cat,
                size |-> getFileSize(files[cat]), quiet |-> running = {},
                at |-> Len(started), was |-> files[cat], raised |-> FALSE,
                list |-> << >>]
  /\ UNCHANGED <<files, channel, running, workerAlive, callPc, callOp, nCalls,
                 faultsUsed, hist>>

\* readEntries returns listOf(), or reads the file and returns or raises.
ReadFinish ==
  /\ reader.pc = "sized"
  /\ LET out == ReadOutcome(reader.size, files[reader.cat]) IN
     reader' = [reader EXCEPT !.pc = "done", !.raised = out.raised,
                              !.list = out.list,
                              !.quiet = @ /\ StillQuiet]
  /\ UNCHANGED <<files, channel, running, workerAlive, callPc, callOp, nCalls,
                 faultsUsed, hist>>

\* ---------------------------------------------------------- specifications
\* The worker coroutine and the file system under it.
WorkerNext ==
  \/ Receive
  \/ \E f \in running : EnsureFileExists(f)
  \/ \E f \in running : MeasureSize(f)
  \/ \E f \in running : MeasureSizeUnreadable(f)
  \/ \E f \in running : appendTextToFile(f)
  \/ \E f \in running : ReadLines(f)
  \/ \E f \in running : writeFileLinesSync(f)
  \/ \E f \in running, exc \in Throwables : IoStepFails(f, exc)
  \/ \E f \in running : InvokeHandler(f)

\* clearEntries' block.
ClearNext ==
  \/ \E f \in running : deleteFileSync(f)
  \/ \E f \in running : DeleteRefused(f)

\* The operations the callers of Spec draw from.
Ops ==
  {AppendOp("errors", EntryA), AppendOp("other", EmptyEntry),
   FilterOp("errors", "notA"), ClearOp("errors")}

\* Two threads and the completion handlers call the log concurrently.
Next ==
  \/ \E c \in Callers, op \in Ops : CallAdd(c, op)
  \/ \E c \in Callers : SendComplete(c)
  \/ \E f \in running, op \in Ops : InvokeHandlerCallingAdd(f, op)
  \/ \E f \in running : HandlerSendComplete(f)
  \/ WorkerNext
  \/ ClearNext

Spec == Init /\ [][Next]_vars

\* The operations the caller of LogSpec draws from, all on one log: two
\* entries, one of them empty, and three predicates over them.
LogOps ==
  {AppendOp("errors", e) : e \in {EmptyEntry, EntryA}}
    \cup {FilterOp("errors", p) : p \in {"all", "none", "isEmpty"}}
    \cup {ClearOp("errors")}

\* The log is absent, or left empty by an earlier run.
LogInit ==
  \E file \in {Absent, EmptyFile} :
    InitWith([cat \in Categories |-> IF cat = "errors" THEN file ELSE Absent])

\* One thread calls the log; its handlers only record the result.
LogNext ==
  \/ \E op \in LogOps : CallAdd("c1", op)
  \/ SendComplete("c1")
  \/ WorkerNext
  \/ ClearNext

LogSpec == LogInit /\ [][LogNext]_vars

\* The scenario on category "errors": append("A"), append("B"),
\* filter(entry != "A"), append("C").
Script ==
  <<AppendOp("errors", EntryA), AppendOp("errors", EntryB),
    FilterOp("errors", "notA"), AppendOp("errors", EntryC)>>

ScriptInit == InitWith([cat \in Categories |-> Absent])

\* The submitter makes the next call of the script.
ScriptCall ==
  /\ nCalls < Len(Script)
  /\ CallAdd("c1", Script[nCalls + 1])

ScriptNext ==
  \/ ScriptCall
  \/ SendComplete("c1")
  \/ WorkerNext

ScriptSpec == ScriptInit /\ [][ScriptNext]_vars

\* The worker coroutine over a file system that does not fail.
SoundWorkerNext ==
  \/ Receive
  \/ \E f \in running : EnsureFileExists(f)
  \/ \E f \in running : MeasureSize(f)
  \/ \E f \in running : appendTextToFile(f)
  \/ \E f \in running : ReadLines(f)
  \/ \E f \in running : writeFileLinesSync(f)
  \/ \E f \in running : deleteFileSync(f)
  \/ \E f \in running : InvokeHandler(f)

\* The operations the caller of ReadSpec and HandlerSpec draws from.
SoundOps ==
  {AppendOp("errors", EntryA), FilterOp("errors", "none"), ClearOp("errors")}

\* One thread submits operations while another calls readEntries().
ReadNext ==
  \/ \E op \in SoundOps : CallAdd("c1", op)
  \/ SendComplete("c1")
  \/ SoundWorkerNext
  \/ ReadStart("errors")
  \/ ReadFinish

ReadSpec == LogInit /\ [][ReadNext]_vars

\* One thread submits operations whose completion handlers may throw.
HandlerNext ==
  \/ \E op \in SoundOps : CallAdd("c1", op)
  \/ SendComplete("c1")
  \/ SoundWorkerNext
  \/ \E f \in running, exc \in Throwables : InvokeHandlerThrows(f, exc)

HandlerSpec == LogInit /\ [][HandlerNext]_vars

\* ------------------------------------------------------------------ claims
\* The ids whose completion handler has been invoked.
Called == {cbLog[k].id : k \in 1..Len(cbLog)}

\* The ids of the blocks being executed.
RunningIds == {f.op.id : f \in running}

\* C1: the worker executes the queued operations in the order in which their
\* enqueue completed, whoever called: the k-th block it starts is the k-th
\* enqueued, handlers fire in that order, and when a block is executing every
\* block enqueued before it has finished, handler included.
FifoExecution ==
  /\ \A i \in 1..Len(started) : started[i] = i
  /\ \A i, j \in 1..Len(cbLog) : i < j => cbLog[i].id <= cbLog[j].id
  /\ \A f \in running : \A x \in 1..(f.op.id - 1) :
       x \in Called /\ x \notin RunningIds

\* C1 witness: the worker has started three enqueued blocks (an append, a
\* filter, an append), the first two with their handlers fired, while a
\* fourth call is being made.
FifoExecutionWitness ==
  /\ Len(started) = 3
  /\ Called = {1, 2}
  /\ submitted[1].kind = "append" /\ submitted[2].kind = "filter"
  /\ submitted[3].kind = "append"
  /\ \E c \in Callers : callPc[c] = "sending"

\* C2: at most one queued block is executing at any time, and between the
\* read and the rewrite of a filterEntries block the file still holds what
\* the block read.
SerialExecution ==
  /\ Cardinality(running) <= 1
  /\ \A f \in running :
       f.pc = "write" =>
         /\ files[f.op.cat].exists
         /\ readFileLinesSync(files[f.op.cat]) = f.contents

\* C2 witness: a filterEntries block has read a non-empty log and not yet
\* rewritten it, while an appendEntry to the same log waits in the channel
\* and another is being sent by a second thread.
SerialExecutionWitness ==
  \E f \in running :
    /\ f.pc = "write"
    /\ f.contents # << >>
    /\ channel # << >>
    /\ Head(channel).kind = "append"
    /\ Head(channel).cat = f.op.cat
    /\ \E c \in Callers : callPc[c] = "sending" /\ callOp[c].kind = "append"

\* C3: a failing operation does not terminate the worker.
WorkerSurvivesFailure == ioFailed # {} => workerAlive

\* C4: every appendEntry or filterEntries block whose ensure, read or write
\* step raised an I/O failure hands a non-null error to its handler, and the
\* failure never escapes the block.
FailureReachesHandler ==
  \A id \in ioFailed :
    /\ id \notin escaped
    /\ id \notin RunningIds =>
         \E k \in 1..Len(cbLog) : cbLog[k].id = id /\ cbLog[k].err # "null"

\* A thread, or a handler on the worker, is suspended in channel.send.
SendBlocked ==
  /\ ~HasRoom
  /\ \/ \E c \in Callers : callPc[c] = "sending"
     \/ \E f \in running : f.pc = "cbsend"

\* C10: whenever an enqueue is blocked on the full buffer, the worker is
\* there to drain it: it is alive and is not itself the thread that waits.
EnqueueNeverStuck ==
  SendBlocked => workerAlive /\ \A f \in running : f.pc # "cbsend"

\* Every call made has been enqueued and executed, and its handler fired.
Quiescent ==
  /\ \A c \in Callers : callPc[c] = "idle"
  /\ channel = << >>
  /\ running = {}
  /\ Called = 1..Len(submitted)

\* The operations submitted to the log of cat, in submission order.
SubmittedTo(cat) == SelectSeq(submitted, LAMBDA o : o.cat = cat)

\* The entries of a sequence of operations.
EntriesOf(ops) == [i \in 1..Len(ops) |-> ops[i].entry]

\* C5: when only appendEntry calls were made, no I/O step failed and every
\* handler has fired, readEntries returns exactly the appended entries of
\* each log, in submission order.
AppendsReadBack ==
  ( /\ Quiescent
    /\ faultsUsed = 0
    /\ \A i \in 1..Len(submitted) : submitted[i].kind = "append" )
  => \A cat \in Categories : readEntries(cat) = EntriesOf(SubmittedTo(cat))

\* C6: after the handler of filterEntries(p) fired with null, readEntries
\* returns the entries it returned before the block started that satisfy p,
\* in the same order.
FilterRetainsMatching ==
  (lastDone.op.kind = "filter" /\ lastDone.err = "null")
  => readEntries(lastDone.op.cat) = FilterList(lastDone.before, lastDone.op.filter)

\* C7: after the four handlers of the scenario fired with null and no I/O
\* step failed, readEntries returns ["B", "C"].
ScriptResult ==
  ( /\ Len(cbLog) = Len(Script)
    /\ \A k \in 1..Len(cbLog) : cbLog[k].err = "null"
    /\ faultsUsed = 0 )
  => readEntries("errors") = <<EntryB, EntryC>>

\* C7 witness: the scenario ran to its end without a failure and the file
\* holds "B\nC".
ScriptResultWitness ==
  /\ Len(cbLog) = Len(Script)
  /\ \A k \in 1..Len(cbLog) : cbLog[k].err = "null"
  /\ faultsUsed = 0
  /\ running = {}
  /\ files["errors"].text = <<"B", NL, "C">>

\* C8: filterEntries with the always-true predicate leaves readEntries
\* unchanged; with the always-false predicate it leaves readEntries empty,
\* as clearEntries does when its delete is not refused.
FilterAllAndNone ==
  /\ (lastDone.op.kind = "filter" /\ lastDone.op.filter = "all"
        /\ lastDone.err = "null")
       => readEntries(lastDone.op.cat) = lastDone.before
  /\ (lastDone.op.kind = "filter" /\ lastDone.op.filter = "none"
        /\ lastDone.err = "null")
       => readEntries(lastDone.op.cat) = << >>
  /\ (lastDone.op.kind = "clear" /\ lastDone.err = "null" /\ lastDone.clean)
       => readEntries(lastDone.op.cat) = << >>

\* C8 witness: the always-true filter has completed on a log of two entries,
\* the second one empty.
FilterAllAndNoneWitness ==
  /\ lastDone.op.kind = "filter"
  /\ lastDone.op.filter = "all"
  /\ lastDone.err = "null"
  /\ lastDone.before = <<EntryA, EmptyEntry>>

\* C9: after the handler of appendEntry(e) fired with null and before any
\* other block starts, readEntries returns a list whose last element is e.
AppendIsLastRead ==
  (lastDone.op.kind = "append" /\ lastDone.err = "null" /\ lastDone.clean)
  => LET r == readEntries(lastDone.op.cat) IN
       r # << >> /\ r[Len(r)] = lastDone.op.entry

\* C11: clearEntries hands every failure of its block to its handler: a
\* refused delete gives a non-null error, and the handler receives null only
\* when the file is absent afterwards.
ClearReportsFailure ==
  lastDone.op.kind = "clear" =>
    /\ ~lastDone.clean => lastDone.err # "null"
    /\ lastDone.err = "null" => ~files[lastDone.op.cat].exists

\* C12: clearEntries executed while the file does not exist leaves it absent
\* at every step of its block and hands null to its handler.
ClearOfAbsentLog ==
  /\ \A f \in running :
       (f.op.kind = "clear" /\ ~f.was.exists) =>
         ~files[f.op.cat].exists /\ f.err = "null"
  /\ (lastDone.op.kind = "clear" /\ ~lastDone.was.exists) =>
       ~files[lastDone.op.cat].exists /\ lastDone.err = "null"

\* C12 witness: the handler of a clearEntries that found no file has fired,
\* an earlier clearEntries having removed the file an append had written.
ClearOfAbsentLogWitness ==
  /\ lastDone.op.kind = "clear"
  /\ ~lastDone.was.exists
  /\ Len(cbLog) = 3
  /\ submitted[1].kind = "append"
  /\ submitted[2].kind = "clear"
  /\ faultsUsed = 0

\* C14: after the handler of appendEntry(e) fired with null (no fault
\* swallowed), the file holds exactly e when it was absent or of length 0
\* before the block, and its former content, a newline and e otherwise.
AppendWritesEntry ==
  (lastDone.op.kind = "append" /\ lastDone.err = "null" /\ lastDone.clean)
  => /\ files[lastDone.op.cat].exists
     /\ files[lastDone.op.cat].text =
          IF ~lastDone.was.exists \/ Len(lastDone.was.text) = 0
          THEN lastDone.op.entry
          ELSE lastDone.was.text \o <<NL>> \o lastDone.op.entry

\* C14 witness: "A" has been appended to a log that held "A" and an empty
\* entry.
AppendWritesEntryWitness ==
  /\ lastDone.op.kind = "append"
  /\ lastDone.err = "null"
  /\ lastDone.clean
  /\ lastDone.was.text = <<"A", NL>>
  /\ files[lastDone.op.cat].text = <<"A", NL, NL, "A">>

RECURSIVE StoredAfter(_, _)
\* The entries logically stored after the operations ops, applied in order to
\* the stored entries acc.
StoredAfter(ops, acc) ==
  IF ops = << >> THEN acc
  ELSE LET o == Head(ops) IN
       StoredAfter(Tail(ops),
         CASE o.kind = "append" -> Append(acc, o.entry)
           [] o.kind = "filter" -> FilterList(acc, o.filter)
           [] OTHER -> << >>)

\* The text neither starts nor ends with a newline.
NoEdgeNewline(text) ==
  text # << >> => text[1] # NL /\ text[Len(text)] # NL

\* C15: between operations the content of a file never starts or ends with a
\* newline, and once every handler has fired (no I/O step having failed)
\* readEntries returns as many entries as are logically stored.
NoTrailingNewline ==
  /\ running = {} => \A cat \in Categories : NoEdgeNewline(files[cat].text)
  /\ (Quiescent /\ faultsUsed = 0) =>
       \A cat \in Categories :
         Len(readEntries(cat)) = Len(StoredAfter(SubmittedTo(cat), << >>))

\* C16: the logs of all categories share one queue and one worker: while a
\* block on one category is executing, every block enqueued before it on
\* another category has finished, handler included, and blocks of different
\* categories never execute together.
GlobalFifoAcrossCategories ==
  /\ \A f, g \in running : f.op.cat = g.op.cat
  /\ \A f \in running : \A x \in 1..(f.op.id - 1) :
       submitted[x].cat # f.op.cat => x \in Called /\ x \notin RunningIds
  /\ \A i, j \in 1..Len(started) :
       (i < j /\ submitted[started[i]].cat # submitted[started[j]].cat)
         => started[i] < started[j]

\* C16 witness: a block on "errors" is executing, enqueued after a block on
\* "other" whose handler has fired, while a later block on "other" waits in
\* the channel.
GlobalFifoAcrossCategoriesWitness ==
  \E f \in running :
    /\ f.op.cat = "errors"
    /\ f.op.id = 2
    /\ submitted[1].cat = "other"
    /\ 1 \in Called
    /\ channel # << >>
    /\ Head(channel).cat = "other"

\* The blocks that will never be executed: enqueued, not started, with the
\* worker coroutine ended.
Stranded == {x \in 1..Len(submitted) : ~workerAlive /\ x \notin Called
                                        /\ x \notin escaped}

\* C17 (outcome): a block on one category is never left unexecuted because a
\* block on another category failed.
NoStrandingAcrossCategories ==
  \A x \in escaped : \A y \in Stranded : submitted[y].cat = submitted[x].cat

\* C17 (frame): a step changes the file of a category only on behalf of a
\* block on that category.
FileFrame ==
  [][\A cat \in Categories :
       files'[cat] # files[cat] => \E f \in running : f.op.cat = cat]_vars

\* C13: a readEntries() call during which no block was executing, on a log
\* that is absent or of zero length, returns the empty list and does not
\* raise.
ReadOfEmptyLog ==
  (reader.pc = "done" /\ reader.quiet
     /\ (~reader.was.exists \/ Len(reader.was.text) = 0))
    => ~reader.raised /\ reader.list = << >>

\* C13 witness: readEntries() has returned the empty list from the zero-length
\* file that a filterEntries retaining nothing left of a non-empty log.
ReadOfEmptyLogWitness ==
  /\ reader.pc = "done"
  /\ reader.quiet
  /\ reader.was = EmptyFile
  /\ reader.list = << >>
  /\ lastDone.op.kind = "filter"
  /\ lastDone.before # << >>
  /\ reader.at = Len(started)

\* C18: a readEntries() call running beside the worker never raises.
ConcurrentReadReturns == ~reader.raised

\* C19: the completion handler of an operation is never invoked twice, and it
\* has been invoked for every block that is no longer executing.
HandlerInvokedOnce ==
  /\ \A i, j \in 1..Len(cbLog) : cbLog[i].id = cbLog[j].id => i = j
  /\ \A k \in 1..Len(started) :
       started[k] \notin RunningIds => started[k] \in Called

====
